---------------------------- MODULE Spec2Model ----------------------------
(***************************************************************************)
(* Verification model of rockinbj/fetch_cmc_turnover.                      *)
(*                                                                         *)
(* The repository holds two variants of the same pipeline:                 *)
(*   src/fetch_cmc_turnover.py  (market cap, volume, turnover)             *)
(*   src/main.py                (turnover only)                            *)
(* The components are modelled one by one, each with its own specification *)
(* over its own variables:                                                 *)
(*   SpecRetry    retry_wrapper                                            *)
(*   SpecExtract  the locator cascades of the metric extractors            *)
(*   SpecStore    rounds of append and format_csv on the table file        *)
(*   SpecFormat   format_csv applied repeatedly to one table               *)
(*   SpecOrder    one batch stored in two different orders                 *)
(*   SpecRun      one run attempt: fan-out to save_for_one and collection  *)
(*   SpecRound    one round: backup, attempts under retry, append, format  *)
(*   SpecProc     processes of the program: guard, attempts, cleanup       *)
(***************************************************************************)
EXTENDS Integers, Sequences, FiniteSets, TLC

VARIABLES
    rImpl,      \* which file's retry_wrapper runs: "fetch_cmc_turnover" | "main"
    rTimes,     \* retry_times
    rIfExit,    \* if_exit
    rPc,        \* "loop" | "returned" | "raised" | "none"
    rCalls,     \* number of invocations of func so far
    rSleeps,    \* number of time.sleep(sleep_seconds) calls so far
    rHist,      \* outcome of every invocation of func, in order
    rResult,    \* value handed back to the caller
    \* ---- field extraction on one loaded page
    xImpl,      \* "cap_vol_tor" | "turnover_rate" | "turnover_rate_main"
    xMetric,    \* "cap" | "vol" | "tor"
    xPage,      \* what each locator of the list meets on the page
    xPc,        \* "scan" | "elems" | "done" | "raised"
    xIdx,       \* index of the next locator to try
    xElems,     \* percent_element (two-stage extractors)
    xEIdx,      \* index of the next element of percent_element
    xVal,       \* the metric variable (_cap, _vol, _tor, pct)
    xEvals,     \* how often each locator has been evaluated
    xWinner,    \* the text that was accepted, or NoText
    \* ---- the table file and its normalisation
    table,      \* rows of CSV_FILE, in file order (<<>> when there is no file)
    tableExists,\* CSV_FILE.exists()
    tiePolicy,  \* how the build's quicksort orders rows of equal sort key
    now,        \* the wall clock, in whole hours
    lastOf,     \* per (symbol, hour): values of the row appended last, or NoVal
    normalized, \* the last store step ran format_csv to its end
    passes,     \* format_csv calls made in a row on the table
    before,     \* the table as it was before the last format_csv call
    overwrote,  \* the last round's drop_duplicates removed a row
    oBatch,     \* a batch in submission order
    oPerm,      \* the same batch in the order a collection delivered it
    oOther,     \* the table of a second run that starts from the same file
    oDone,      \* which of the two runs have stored: subset of {"seq", "perm"}
    \* ---- one run attempt of main: fan-out and collection
    mMode,      \* PARALLEL: "sequential" | "parallel"
    pairs,      \* cmc_pairs: the symbol of each submitted pair
    pairsOk,    \* FALSE when get_cmc_market_pairs returned None
    mPc,        \* "fanout" | "store" | "failed"
    wPc,        \* per pair: "pending" | "started" | "ready" | "extracted"
                \*           | "returned" | "raised"
    wDriver,    \* per pair: what retry_wrapper(webdriver.Chrome) handed back
    wVal,       \* per pair: the metric values extracted
    wRec,       \* per pair: the records save_for_one returned
    doneOrder,  \* indices of the pairs in the order their workers returned
    dfs,        \* the list handed to pd.concat
    mImpl,      \* which file's main runs: "fetch_cmc_turnover" | "main"
    wRes,       \* per pair: what its worker holds (sleep, temp, ctx, exe)
    \* ---- one round: the attempts of __main__ on the table file
    attempt,    \* number of the running call of main under retry_wrapper
    stale,      \* workers of failed attempts whose threads still run
    bk,         \* backup_csv in this attempt: "none" | "noop" | "copied" | "raised"
    backups,    \* the backup files: a set of <<name, rows>>
    headerLines,\* header lines in CSV_FILE
    startTable, \* rows of CSV_FILE when this attempt began
    startExists,\* CSV_FILE.exists() when this attempt began
    roundTable, \* rows of CSV_FILE when the round began
    \* ---- processes of the program on one machine
    platform,   \* platform.system(): "Linux" | "other"
    pImpl,      \* which file the processes run: "fetch_cmc_turnover" | "main"
    pPc,        \* per process: "off" | "call" | "backup" | "fanout" | "store"
                \*              | "finally" | "ended"
    pCalls,     \* per process: calls of main made so far
    pCleanups,  \* per process: calls of clear_chrom made so far
    pHow,       \* per process: how its try block ended: "none" | "returned"
                \*              | "exhausted" | "guard" | "interrupt"
    pBrowsers,  \* per process: live browsers of its running attempt
    pKilledBy,  \* per process: pHow of the process whose pkill ended some of
                \*              its live browsers, or "none"
    pDid        \* per process: which of "backup", "worker", "write" it did

retryVars == <<rImpl, rTimes, rIfExit, rPc, rCalls, rSleeps, rHist, rResult>>

extractVars == <<xImpl, xMetric, xPage, xPc, xIdx, xElems, xEIdx, xVal, xEvals, xWinner>>

storeVars == <<table, tableExists, tiePolicy, now, lastOf, normalized,
               passes, before, overwrote, oBatch, oPerm, oOther, oDone>>

runVars == <<mMode, pairs, pairsOk, mPc, wPc, wDriver, wVal, wRec, doneOrder, dfs,
             mImpl, wRes>>

roundVars == <<attempt, stale, bk, backups, headerLines, startTable, startExists,
               roundTable>>

procVars == <<platform, pImpl, pPc, pCalls, pCleanups, pHow, pBrowsers, pKilledBy, pDid>>

vars == <<retryVars, extractVars, storeVars, runVars, roundVars, procVars>>

(***************************************************************************)
(* Bounds                                                                  *)
(***************************************************************************)
MaxRetryTimes == 3
MaxLocators   == 3      \* length of an xpath list (the source's lists hold 5)
MaxElems      == 2      \* elements one CSS selector resolves to
MaxSyms       == 2      \* distinct symbols
HourSpan      == 1      \* hours the clock can advance
MaxBatch      == 2      \* records of one batch
MaxRows       == 3      \* rows of a table drawn as an input
MaxPrior      == 2      \* rows of the table a compared pair of runs starts from
MaxPasses     == 2      \* format_csv calls in a row
MaxPairs      == 3      \* pairs of one pair list
Threads       == 2      \* size of the worker pool (THREADS; the source sets 5)


(***************************************************************************)
(* retry_wrapper                                                           *)
(***************************************************************************)
RetryImpls == {"fetch_cmc_turnover", "main"}

\* What one invocation of func can do: return a value, or raise
\* TimeoutException, OSError with errno ETXTBSY, another OSError, or any
\* other Exception.
FuncResults  == {"resultA", "resultB"}
FailureKinds == {"Timeout", "ETXTBSY", "OSError", "Other"}
NoResult     == "None"

FuncOutcomes ==
    [kind : {"ok"}, value : FuncResults] \cup [kind : FailureKinds, value : {NoResult}]

\* for _ in range(retry_times)
RetryLoopContinues_OffByOne(calls, times) == calls <= times

RetryLoopContinues(calls, times) == calls < times

\* The number of time.sleep(sleep_seconds) calls the except clause that
\* catches `kind` makes.  fetch_cmc_turnover.py sleeps in every clause;
\* main.py's TimeoutException clause only logs.
SleepsAfter(impl, kind) ==
    IF impl = "main" /\ kind = "Timeout" THEN 0 ELSE 1

RetryInit ==
    /\ rImpl \in RetryImpls
    /\ rTimes \in 1..MaxRetryTimes
    /\ rIfExit \in BOOLEAN
    /\ rPc = "loop"
    /\ rCalls = 0
    /\ rSleeps = 0
    /\ rHist = <<>>
    /\ rResult = NoResult

\* One iteration of the for loop: call func; return its value, or catch
\* the exception, sleep as the clause says and go round again.
RetryAttempt(o) ==
    /\ rPc = "loop"
    /\ RetryLoopContinues(rCalls, rTimes)
    /\ rCalls' = rCalls + 1
    /\ rHist' = Append(rHist, o)
    /\ IF o.kind = "ok"
         THEN /\ rPc' = "returned"
              /\ rResult' = o.value
              /\ rSleeps' = rSleeps
         ELSE /\ rPc' = "loop"
              /\ rResult' = rResult
              /\ rSleeps' = rSleeps + SleepsAfter(rImpl, o.kind)
    /\ UNCHANGED <<rImpl, rTimes, rIfExit>>

\* The for loop's else clause.
RetryExhausted ==
    /\ rPc = "loop"
    /\ ~RetryLoopContinues(rCalls, rTimes)
    /\ rPc' = IF rIfExit THEN "raised" ELSE "none"
    /\ rResult' = NoResult
    /\ UNCHANGED <<rImpl, rTimes, rIfExit, rCalls, rSleeps, rHist>>

RetryIdle ==
    /\ rImpl = "fetch_cmc_turnover"
    /\ rTimes = 1
    /\ rIfExit = FALSE
    /\ rPc = "none"
    /\ rCalls = 0
    /\ rSleeps = 0
    /\ rHist = <<>>
    /\ rResult = NoResult

(***************************************************************************)
(* Field extraction: get_cmc_cap_vol_tor and get_cmc_turnover_rate         *)
(*                                                                         *)
(* Numbers are fixed-point, in units of 10^-6: Unit stands for 1.0.  Every *)
(* page text used below is a multiple of 10^-4, so a division by 100 is    *)
(* exact, and no value lies halfway between two 4-digit roundings.         *)
(***************************************************************************)
Unit == 1000 * 1000

\* _cap = _vol = _tor = pct = -1.0
Sentinel == -1 * Unit

\* The text of a page element: `num` is the number its digits spell,
\* `dollar` and `pct` say whether a "$" (with thousands commas) or a "%"
\* is written around it, `junk` that the rest is no number at all.
Txt(num, dollar, pct, junk) ==
    [num |-> num, dollar |-> dollar, pct |-> pct, junk |-> junk]

NoText == Txt(0, FALSE, FALSE, TRUE)

PageTexts ==
    { Txt(12340000, FALSE, TRUE, FALSE),     \* "12.34%"
      Txt(500000, FALSE, FALSE, FALSE),      \* "0.5"
      Txt(5000000, FALSE, FALSE, FALSE),     \* "5"
      Txt(500000, FALSE, TRUE, FALSE),       \* "0.5%"
      Txt(250000000, FALSE, TRUE, FALSE),    \* "250%"
      Txt(0, FALSE, FALSE, FALSE),           \* "0"
      Txt(Unit, FALSE, FALSE, FALSE),        \* "1"
      Txt(123600, FALSE, TRUE, FALSE),       \* "0.1236%"
      Txt(-100000000, FALSE, FALSE, FALSE),  \* "-100"
      Txt(12500000, TRUE, FALSE, FALSE),     \* "$12.5"
      Txt(0, FALSE, FALSE, TRUE),            \* "--"
      Txt(0, FALSE, TRUE, TRUE) }            \* "<0.01%"

\* A metric variable holds a float, or (get_cmc_turnover_rate, line 144)
\* the str that float() then rejected.
Num(v)   == [isNum |-> TRUE, v |-> v]
StrValue == [isNum |-> FALSE, v |-> 0]

\* round(x, 4): to the nearest multiple of 10^-4, ties to even.
Round4(x) ==
    LET q  == Unit \div 10000
        lo == (x \div q) * q
        r  == x - lo
    IN  IF 2 * r < q THEN lo
        ELSE IF 2 * r > q THEN lo + q
        ELSE IF (lo \div q) % 2 = 0 THEN lo ELSE lo + q

\* x / 100
Div100(x) == x \div 100

\* float(s) of a text from which the characters in `stripped` were removed
\* first: it raises ValueError when a "$" or a "%" is left, or on junk.
FloatParses(t, stripDollar, stripPct) ==
    /\ ~t.junk
    /\ t.dollar => stripDollar
    /\ t.pct => stripPct

\* _tor if 0 <= _tor <= 1 else _tor / 100
TorNormalize(v) == IF 0 <= v /\ v <= Unit THEN v ELSE Div100(v)

\* One pass of the body of an xpath loop of get_cmc_cap_vol_tor on the
\* text of the element found: TRUE and the value when float() succeeds.
\*   cap, vol: .replace("$","").replace(",","") ; float
\*   tor:      .replace("%","") ; float ; rescale
XpathParses(metric, t) ==
    IF metric = "tor" THEN FloatParses(t, FALSE, TRUE)
                      ELSE FloatParses(t, TRUE, FALSE)

XpathValue(metric, t) ==
    IF metric = "tor" THEN TorNormalize(t.num) ELSE t.num

\* The body of get_cmc_turnover_rate's element loop on a text:
\*   "accept"  a value is stored in pct and the loop breaks
\*   "string"  pct was set to the text without "%", then float() raised
\*   "skip"    nothing stored, next element
ElemVerdict(t) ==
    IF t.pct
      THEN IF FloatParses(t, FALSE, TRUE) THEN "accept" ELSE "string"
      ELSE IF FloatParses(t, FALSE, FALSE) /\ 0 < t.num /\ t.num < Unit
             THEN "accept" ELSE "skip"

ElemValue(t) ==
    IF t.pct THEN Round4(Div100(t.num)) ELSE Round4(t.num)

\* What a locator meets.
NotFound   == [k |-> "NotFound", t |-> NoText, es |-> <<>>]
Stale      == [k |-> "Stale", t |-> NoText, es |-> <<>>]
Found(t)   == [k |-> "text", t |-> t, es |-> <<>>]
Elems(es)  == [k |-> "elems", t |-> NoText, es |-> es]

XpathOutcomes == {NotFound, Stale} \cup {Found(t) : t \in PageTexts}

ElemOutcomes  == {Stale} \cup {Found(t) : t \in PageTexts}

SeqsUpTo(S, n) == UNION {[1..m -> S] : m \in 0..n}

\* selectors = ['dd.sc-8755d3ba-0.eXRmzO.base-text', 'div.priceValue']
NumSelectors == 2

SelectorOutcomes == {NotFound} \cup {Elems(es) : es \in SeqsUpTo(ElemOutcomes, MaxElems)}

XpathImpls    == {"cap_vol_tor"}
TwoStageImpls == {"turnover_rate", "turnover_rate_main"}

ExtractInit ==
    /\ xImpl \in XpathImpls \cup TwoStageImpls
    /\ IF xImpl \in XpathImpls
         THEN /\ xMetric \in {"cap", "vol", "tor"}
              /\ xPage \in UNION {[1..n -> XpathOutcomes] : n \in 1..MaxLocators}
         ELSE /\ xMetric = "tor"
              /\ xPage \in [1..NumSelectors -> SelectorOutcomes]
    /\ xPc = "scan"
    /\ xIdx = 1
    /\ xElems = <<>>
    /\ xEIdx = 1
    /\ xVal = Num(Sentinel)
    /\ xEvals = [i \in 1..Len(xPage) |-> 0]
    /\ xWinner = NoText

ExtractIdle ==
    /\ xImpl = "cap_vol_tor"
    /\ xMetric = "tor"
    /\ xPage = <<>>
    /\ xPc = "done"
    /\ xIdx = 1
    /\ xElems = <<>>
    /\ xEIdx = 1
    /\ xVal = Num(Sentinel)
    /\ xEvals = <<>>
    /\ xWinner = NoText

\* for x in _tor_xpaths: one pass of the loop body (lines 199-218,
\* 229-247, 258-281).
XpathStep ==
    /\ xImpl \in XpathImpls
    /\ xPc = "scan"
    /\ xIdx <= Len(xPage)
    /\ xEvals' = [xEvals EXCEPT ![xIdx] = @ + 1]
    /\ LET o == xPage[xIdx] IN
         IF o.k = "text" /\ XpathParses(xMetric, o.t)
           THEN /\ xVal' = Num(XpathValue(xMetric, o.t))
                /\ xWinner' = o.t
                /\ xPc' = "done"                      \* break
                /\ xIdx' = xIdx
           ELSE /\ xIdx' = xIdx + 1                   \* continue
                /\ UNCHANGED <<xVal, xWinner, xPc>>
    /\ UNCHANGED <<xImpl, xMetric, xPage, xElems, xEIdx>>

\* The list is exhausted: the metric keeps the value it was initialised to.
XpathExhausted ==
    /\ xImpl \in XpathImpls
    /\ xPc = "scan"
    /\ xIdx > Len(xPage)
    /\ xPc' = "done"
    /\ UNCHANGED <<xImpl, xMetric, xPage, xIdx, xElems, xEIdx, xVal, xEvals, xWinner>>

\* for selector in selectors (lines 127-136): percent_element is assigned
\* whatever find_elements returns, and the loop breaks on a non-empty list.
SelectorStep ==
    /\ xImpl \in TwoStageImpls
    /\ xPc = "scan"
    /\ xIdx <= Len(xPage)
    /\ xEvals' = [xEvals EXCEPT ![xIdx] = @ + 1]
    /\ LET o == xPage[xIdx] IN
         IF o.k = "elems"
           THEN /\ xElems' = o.es
                /\ IF o.es # <<>>
                     THEN xPc' = "elems" /\ xIdx' = xIdx       \* break
                     ELSE xPc' = "scan" /\ xIdx' = xIdx + 1
           ELSE /\ xIdx' = xIdx + 1                            \* continue
                /\ UNCHANGED <<xElems, xPc>>
    /\ UNCHANGED <<xImpl, xMetric, xPage, xEIdx, xVal, xWinner>>

\* No selector gave a non-empty list: `if percent_element:` is false.
SelectorsExhausted ==
    /\ xImpl \in TwoStageImpls
    /\ xPc = "scan"
    /\ xIdx > Len(xPage)
    /\ xPc' = "done"
    /\ UNCHANGED <<xImpl, xMetric, xPage, xIdx, xElems, xEIdx, xVal, xEvals, xWinner>>

\* for e in percent_element (lines 139-160; main.py 121-137).  In main.py
\* the handler of `except Exception` formats e.text again, so a stale
\* element raises a second time, out of the function.
ElemStep ==
    /\ xImpl \in TwoStageImpls
    /\ xPc = "elems"
    /\ xEIdx <= Len(xElems)
    /\ LET o == xElems[xEIdx] IN
         IF o.k = "Stale"
           THEN /\ IF xImpl = "turnover_rate_main"
                     THEN xPc' = "raised" /\ xEIdx' = xEIdx
                     ELSE xPc' = "elems" /\ xEIdx' = xEIdx + 1
                /\ UNCHANGED <<xVal, xWinner>>
           ELSE LET verdict == ElemVerdict(o.t) IN
                /\ xVal' = CASE verdict = "accept" -> Num(ElemValue(o.t))
                             [] verdict = "string" -> StrValue
                             [] OTHER -> xVal
                /\ xWinner' = IF verdict = "accept" THEN o.t ELSE xWinner
                /\ xPc' = IF verdict = "accept" THEN "done" ELSE "elems"
                /\ xEIdx' = IF verdict = "accept" THEN xEIdx ELSE xEIdx + 1
    /\ UNCHANGED <<xImpl, xMetric, xPage, xIdx, xElems, xEvals>>

ElemsExhausted ==
    /\ xImpl \in TwoStageImpls
    /\ xPc = "elems"
    /\ xEIdx > Len(xElems)
    /\ xPc' = "done"
    /\ UNCHANGED <<xImpl, xMetric, xPage, xIdx, xElems, xEIdx, xVal, xEvals, xWinner>>




(***************************************************************************)
(* The table file: to_csv, format_csv                                      *)
(***************************************************************************)
HoursPerDay == 24

\* The clock starts in the last hour of a day, so that a run can meet
\* midnight.
StartHour == HoursPerDay - 1
MaxHour   == StartHour + HourSpan
Hours     == StartHour..MaxHour

\* A symbol is modelled by its rank in string order.
Syms == 1..MaxSyms

\* The metric values of a record: all sentinels, or an extracted value.
Vals  == {Sentinel, Unit \div 2}
NoVal == 0

\* datetime.now().replace(minute=0, second=0, microsecond=0)
IsMidnight(h) == h % HoursPerDay = 0

\* The text to_csv writes for a candle_begin_time: "YYYY-MM-DD HH:MM:SS",
\* or "YYYY-MM-DD" alone when no timestamp of the written frame has a time
\* of day (pandas picks one format for the whole datetime column).
TimeText(h, dateOnly) ==
    [day |-> h \div HoursPerDay, hod |-> h % HoursPerDay, dateOnly |-> dateOnly]

\* The hour a text denotes.
HourOf(t) == t.day * HoursPerDay + t.hod

\* Rank of a text in string order: "2023-05-02" is a proper prefix of
\* "2023-05-02 00:00:00" and so sorts before it.
TimeOrd(t) ==
    t.day * (HoursPerDay + 1) + (IF t.dateOnly THEN 0 ELSE t.hod + 1)

TimeTexts ==
    {TimeText(h, FALSE) : h \in Hours} \cup
    {TimeText(h, TRUE) : h \in {g \in Hours : IsMidnight(g)}}

Records == [sym : Syms, hour : Hours, val : Vals]
Rows    == [sym : Syms, time : TimeTexts, val : Vals]

\* all_df.to_csv(...): one row of text per record of the batch.
DatesOnly(batch) == \A i \in 1..Len(batch) : IsMidnight(batch[i].hour)

ToCsv(batch) ==
    [i \in 1..Len(batch) |->
        [sym  |-> batch[i].sym,
         time |-> TimeText(batch[i].hour, DatesOnly(batch)),
         val  |-> batch[i].val]]

\* The order a sort on the keys `key` (one per row) gives the rows when it
\* keeps rows of equal key in their input order: the p-th row of the result
\* is row StableOrder(key)[p] of the input (pandas sorts on several columns
\* with a stable lexsort).
StableOrder(key) ==
    LET n   == Len(key)
        pos == [i \in 1..n |-> 1 + Cardinality({j \in 1..n :
                        \/ key[j] < key[i]
                        \/ key[j] = key[i] /\ j < i})]
    IN  [p \in 1..n |-> CHOOSE i \in 1..n : pos[i] = p]

\* The order of a sort that leaves rows of equal key in the reverse of
\* their input order.
ReverseTiesOrder(key) ==
    LET n   == Len(key)
        pos == [i \in 1..n |-> 1 + Cardinality({j \in 1..n :
                        \/ key[j] < key[i]
                        \/ key[j] = key[i] /\ j > i})]
    IN  [p \in 1..n |-> CHOOSE i \in 1..n : pos[i] = p]

Reorder(s, ord) == [p \in 1..Len(s) |-> s[ord[p]]]

\* sort_values on one column uses kind='quicksort', which is not stable:
\* the order of rows of equal key is some fixed function of the input that
\* the build determines.  Two such functions are modelled.
TiePolicies == {"stable", "reversed"}

KeyBase == (MaxHour \div HoursPerDay + 2) * (HoursPerDay + 1)

SymTimeKey_TimeOnly(r) == TimeOrd(r.time)

SymTimeKey(r) == r.sym * KeyBase + TimeOrd(r.time)

TimeKey_Symbol(r) == r.sym

TimeKey(r) == TimeOrd(r.time)

\* _df.sort_values(by=['symbol', 'candle_begin_time'])
SortBySymbolTime_NoSort(s) == s

SortBySymbolTime(s) ==
    Reorder(s, StableOrder([i \in 1..Len(s) |-> SymTimeKey(s[i])]))

SameKey(a, b) == a.sym = b.sym /\ a.time = b.time

\* _df.drop_duplicates(subset=['symbol', 'candle_begin_time'], keep='last')
KeptIndices_KeepNone(s) ==
    {i \in 1..Len(s) : ~\E j \in 1..Len(s) : j # i /\ SameKey(s[i], s[j])}

KeptIndices(s) ==
    {i \in 1..Len(s) : ~\E j \in (i + 1)..Len(s) : SameKey(s[i], s[j])}

DropDuplicates(s) ==
    LET keep   == KeptIndices(s)
        tagged == [i \in 1..Len(s) |-> [row |-> s[i], kept |-> i \in keep]]
        sel    == SelectSeq(tagged, LAMBDA e : e.kept)
    IN  [p \in 1..Len(sel) |-> sel[p].row]

\* _df.sort_values(by="candle_begin_time")
SortByTime(s) ==
    LET key == [i \in 1..Len(s) |-> TimeKey(s[i])]
    IN  Reorder(s, IF tiePolicy = "stable" THEN StableOrder(key)
                                           ELSE ReverseTiesOrder(key))

\* format_csv, from read_csv to to_csv
FormatCsv(s) == SortByTime(DropDuplicates(SortBySymbolTime(s)))

\* main, lines 406-410: write the batch as the file, or append it
AppendBatch(s, batch) == s \o ToCsv(batch)

\* main, lines 406-413
StoreResult(s, batch) == FormatCsv(AppendBatch(s, batch))

Batches(hs) == UNION {[1..n -> [sym : Syms, hour : hs, val : Vals]] : n \in 1..MaxBatch}

\* The hours the workers of a run that starts at hour h can stamp.
RunHours(h) == {g \in Hours : h <= g /\ g <= h + 1}

MaxOf(S) == CHOOSE x \in S : \A y \in S : y <= x

BatchHours(batch) == {batch[i].hour : i \in 1..Len(batch)}

Keys == Syms \X Hours

\* lastOf after the records of a batch were appended in order
RecordLast(f, batch) ==
    [k \in Keys |->
        LET hits == {i \in 1..Len(batch) : <<batch[i].sym, batch[i].hour>> = k}
        IN  IF hits = {} THEN f[k] ELSE batch[MaxOf(hits)].val]

StoreIdle ==
    /\ table = <<>>
    /\ tableExists = FALSE
    /\ tiePolicy = "stable"
    /\ now = StartHour
    /\ lastOf = [k \in Keys |-> NoVal]
    /\ normalized = TRUE
    /\ passes = 0
    /\ before = <<>>
    /\ overwrote = FALSE
    /\ oBatch = <<>>
    /\ oPerm = <<>>
    /\ oOther = <<>>
    /\ oDone = {}

\* ---- rounds on the table: main, lines 403-413 ----

StoreInit ==
    /\ table = <<>>
    /\ tableExists = FALSE
    /\ tiePolicy \in TiePolicies
    /\ now = StartHour
    /\ lastOf = [k \in Keys |-> NoVal]
    /\ normalized = TRUE
    /\ passes = 0
    /\ before = <<>>
    /\ overwrote = FALSE
    /\ oBatch = <<>>
    /\ oPerm = <<>>
    /\ oOther = <<>>
    /\ oDone = {}

\* A run attempt that collected `batch` appends it and normalises.
StoreRound(batch) ==
    /\ table' = StoreResult(table, batch)
    /\ overwrote' = (Len(table') < Len(table) + Len(batch))
    /\ tableExists' = TRUE
    /\ lastOf' = RecordLast(lastOf, batch)
    /\ now' = MaxOf(BatchHours(batch) \cup {now})
    /\ normalized' = TRUE
    /\ UNCHANGED <<tiePolicy, passes, before, oBatch, oPerm, oOther, oDone>>

\* A run attempt that collected `batch` appends it, and format_csv then
\* raises in read_csv (an I/O error): the file keeps the appended rows and
\* the top-level retry_wrapper runs main again.
StoreRoundFormatFails(batch) ==
    /\ Len(table) + Len(batch) <= MaxRows
    /\ table' = AppendBatch(table, batch)
    /\ overwrote' = FALSE
    /\ tableExists' = TRUE
    /\ lastOf' = RecordLast(lastOf, batch)
    /\ now' = MaxOf(BatchHours(batch) \cup {now})
    /\ normalized' = FALSE
    /\ UNCHANGED <<tiePolicy, passes, before, oBatch, oPerm, oOther, oDone>>

\* Time passes between two runs.
Tick ==
    /\ now < MaxHour
    /\ now' = now + 1
    /\ UNCHANGED <<table, tableExists, tiePolicy, lastOf, normalized,
                   passes, before, overwrote, oBatch, oPerm, oOther, oDone>>


(***************************************************************************)
(* One run attempt: main's fan-out to save_for_one and the collection      *)
(***************************************************************************)
Modes == {"sequential", "parallel"}

MainImpls == {"fetch_cmc_turnover", "main"}

PairLists == SeqsUpTo(Syms, MaxPairs)

Idx == 1..Len(pairs)

Active(i) == wPc[i] \in {"started", "ready", "extracted"}

Finished(i) == wPc[i] \in {"returned", "raised"}

\* int(RAND_WAIT_SEC * 1000)
JitterMs == 500

\* randint(_ms, _ms*2): both ends and a value between them.  Sequential
\* mode of fetch_cmc_turnover.py sets RAND_WAIT_SEC = 0 before its loop
\* (lines 391-392); main.py (lines 202-206) leaves it as it is.
JitterBase(impl, mode) ==
    IF impl = "fetch_cmc_turnover" /\ mode = "sequential" THEN 0 ELSE JitterMs

Jitters(impl, mode) ==
    LET ms == JitterBase(impl, mode) IN {ms, ms + ms \div 2, 2 * ms}

\* What a worker holds:
\*   sleep  the time.sleep it is in, in ms (0 once it is over)
\*   temp   its mkdtemp directory: "none" | "exists" | "removed"
\*   ctx    its browser: "none" | "open" | "closed"
\*   exe    the driver executable it runs: "none" | "copy" (the file it
\*          copied into its own directory) | "shared" (the file at the
\*          path ChromeDriverManager().install() returns)
NoRes == [sleep |-> 0, temp |-> "none", ctx |-> "none", exe |-> "none"]

RunIdle ==
    /\ mMode = "sequential"
    /\ pairs = <<>>
    /\ pairsOk = TRUE
    /\ mPc = "failed"
    /\ wPc = <<>>
    /\ wDriver = <<>>
    /\ wVal = <<>>
    /\ wRec = <<>>
    /\ doneOrder = <<>>
    /\ dfs = <<>>
    /\ mImpl = "fetch_cmc_turnover"
    /\ wRes = <<>>

\* main of fetch_cmc_turnover.py, lines 378-390: the pair list is fetched
\* (None when the request or its decoding raised) and no worker has been
\* called yet.
RunInit ==
    /\ mMode \in Modes
    /\ mImpl = "fetch_cmc_turnover"
    /\ pairsOk \in BOOLEAN
    /\ pairs \in (IF pairsOk THEN PairLists ELSE {<<>>})
    /\ mPc = "fanout"
    /\ wPc = [i \in 1..Len(pairs) |-> "pending"]
    /\ wDriver = [i \in 1..Len(pairs) |-> "unset"]
    /\ wVal = [i \in 1..Len(pairs) |-> NoVal]
    /\ wRec = [i \in 1..Len(pairs) |-> <<>>]
    /\ wRes = [i \in 1..Len(pairs) |-> NoRes]
    /\ doneOrder = <<>>
    /\ dfs = <<>>

\* Which pending call of save_for_one may begin.  Sequential mode (lines
\* 394-397) calls it for pair i when the call for pair i-1 has returned;
\* the pool (lines 399-401) hands the calls to its threads in submission
\* order, at most Threads of them running at a time.
MayStart(i) ==
    /\ mPc = "fanout"
    /\ pairsOk
    /\ wPc[i] = "pending"
    /\ \A j \in 1..(i - 1) : wPc[j] # "pending"
    /\ IF mMode = "sequential"
         THEN \A j \in 1..(i - 1) : wPc[j] = "returned"
         ELSE Cardinality({j \in Idx : Active(j)}) < Threads

\* save_for_one, lines 288-289: the worker is called and sleeps its jitter.
WorkerStart(i, ms) ==
    /\ MayStart(i)
    /\ wPc' = [wPc EXCEPT ![i] = "started"]
    /\ wRes' = [wRes EXCEPT ![i].sleep = ms]
    /\ UNCHANGED <<mMode, mImpl, pairs, pairsOk, mPc, wDriver, wVal, wRec, doneOrder, dfs>>

\* save_for_one, lines 294-300: the temporary directory, the copy of the
\* driver executable in it, and retry_wrapper(webdriver.Chrome,
\* retry_times=3, if_exit=False), which hands back a driver, or None when
\* all three attempts raised.  In main.py (line 97) there is no directory
\* and no copy: get_cmc_turnover_rate runs the executable at the path
\* install() returns.
WorkerCreateDriver(i, d) ==
    /\ wPc[i] = "started"
    /\ mImpl = "main" => d = "driver"
    /\ wPc' = [wPc EXCEPT ![i] = "ready"]
    /\ wDriver' = [wDriver EXCEPT ![i] = d]
    /\ wRes' = [wRes EXCEPT ![i] =
                  [sleep |-> 0,
                   temp  |-> IF mImpl = "main" THEN "none" ELSE "exists",
                   ctx   |-> IF d = "driver" THEN "open" ELSE "none",
                   exe   |-> IF mImpl = "main" THEN "shared" ELSE "copy"]]
    /\ UNCHANGED <<mMode, mImpl, pairs, pairsOk, mPc, wVal, wRec, doneOrder, dfs>>

\* main.py, line 97: webdriver.Chrome(...) is called once, outside any
\* retry_wrapper; when it raises, the exception leaves save_for_one.
WorkerCreateRaises(i) ==
    /\ wPc[i] = "started"
    /\ mImpl = "main"
    /\ wPc' = [wPc EXCEPT ![i] = "raised"]
    /\ wRes' = [wRes EXCEPT ![i].sleep = 0]
    /\ mPc' = "failed"
    /\ UNCHANGED <<mMode, mImpl, pairs, pairsOk, wDriver, wVal, wRec, doneOrder, dfs>>

\* save_for_one, line 302: get_cmc_cap_vol_tor.  With a driver it returns
\* the values it extracted, each the sentinel when its locators (or the
\* navigation) failed.
WorkerExtract(i, v) ==
    /\ wPc[i] = "ready"
    /\ wDriver[i] = "driver"
    /\ wPc' = [wPc EXCEPT ![i] = "extracted"]
    /\ wVal' = [wVal EXCEPT ![i] = v]
    /\ UNCHANGED <<mMode, mImpl, pairs, pairsOk, mPc, wDriver, wRec, doneOrder, dfs, wRes>>

\* main.py, lines 122-137: an element that went stale raises in the
\* handler of `except Exception` (it formats e.text again); the exception
\* leaves get_cmc_turnover_rate before its driver.quit() and then
\* save_for_one.
WorkerExtractRaises(i) ==
    /\ wPc[i] = "ready"
    /\ wDriver[i] = "driver"
    /\ mImpl = "main"
    /\ wPc' = [wPc EXCEPT ![i] = "raised"]
    /\ mPc' = "failed"
    /\ UNCHANGED <<mMode, mImpl, pairs, pairsOk, wDriver, wVal, wRec, doneOrder, dfs, wRes>>

\* save_for_one, line 302 with driver = None: the argument _driver.get of
\* line 184 raises AttributeError, which leaves save_for_one and fails the
\* run attempt.
WorkerRaises(i) ==
    /\ wPc[i] = "ready"
    /\ wDriver[i] = "None"
    /\ wPc' = [wPc EXCEPT ![i] = "raised"]
    /\ mPc' = "failed"
    /\ UNCHANGED <<mMode, mImpl, pairs, pairsOk, wDriver, wVal, wRec, doneOrder, dfs, wRes>>

\* save_for_one, lines 305-306: driver.quit() or shutil.rmtree raises; the
\* exception leaves save_for_one and fails the run attempt.
WorkerTeardownRaises(i) ==
    /\ wPc[i] = "extracted"
    /\ wPc' = [wPc EXCEPT ![i] = "raised"]
    /\ mPc' = "failed"
    /\ UNCHANGED <<mMode, mImpl, pairs, pairsOk, wDriver, wVal, wRec, doneOrder, dfs, wRes>>

\* save_for_one, lines 304-320: tear down, stamp the hour, return the
\* one-row frame.  Sequential mode appends it to dfs at once (line 396).
WorkerReturn(i) ==
    /\ wPc[i] = "extracted"
    /\ wPc' = [wPc EXCEPT ![i] = "returned"]
    /\ wRes' = [wRes EXCEPT ![i].ctx = "closed",
                            ![i].temp = IF @ = "exists" THEN "removed" ELSE @]
    /\ wRec' = [wRec EXCEPT ![i] =
                   Append(@, [sym |-> pairs[i], hour |-> now, val |-> wVal[i]])]
    /\ doneOrder' = Append(doneOrder, i)
    /\ dfs' = IF mMode = "sequential" /\ mPc = "fanout"
                THEN dfs \o <<[sym |-> pairs[i], hour |-> now, val |-> wVal[i]]>>
                ELSE dfs
    /\ UNCHANGED <<mMode, mImpl, pairs, pairsOk, mPc, wDriver, wVal>>

\* Every call of save_for_one has returned.
AllReturned_SomeReturned == \E i \in Idx : wPc[i] = "returned"

AllReturned_AllStarted == \A i \in Idx : wPc[i] # "pending"

AllReturned == \A i \in Idx : wPc[i] = "returned"

\* The frames of the pool's tasks, in submission order (joblib's Parallel
\* returns its results in the order of its input).
PoolResults ==
    LET got == {i \in Idx : wRec[i] # <<>>}
        ord == StableOrder([i \in Idx |-> IF i \in got THEN 0 ELSE 1])
    IN  [p \in 1..Cardinality(got) |-> wRec[ord[p]][1]]

\* main, lines 399-403: the pool is done, or the loop is; pd.concat of an
\* empty list raises ValueError and fails the attempt.
Collect ==
    /\ mPc = "fanout"
    /\ pairsOk
    /\ AllReturned
    /\ dfs' = IF mMode = "parallel" THEN PoolResults ELSE dfs
    /\ mPc' = IF dfs' = <<>> THEN "failed" ELSE "store"
    /\ UNCHANGED <<mMode, mImpl, pairs, pairsOk, wPc, wDriver, wVal, wRec, doneOrder, wRes>>

\* main, lines 394/400 with cmc_pairs = None: tqdm(None) raises TypeError.
NoPairList ==
    /\ mPc = "fanout"
    /\ ~pairsOk
    /\ mPc' = "failed"
    /\ UNCHANGED <<mMode, mImpl, pairs, pairsOk, wPc, wDriver, wVal, wRec, doneOrder, dfs, wRes>>


(***************************************************************************)
(* One round: __main__, main's backup, fetch, store steps around the       *)
(* fan-out                                                                 *)
(***************************************************************************)
\* retry_wrapper(main, retry_times=2, sleep_seconds=300, if_exit=True);
\* main.py calls main() once.
TopRetryTimes == 2

Attempts(impl) == IF impl = "fetch_cmc_turnover" THEN TopRetryTimes ELSE 1

\* last_time.replace(" ", "_").replace(":", "-"): the text with its
\* separators replaced; a date-only text has none.
Sanitize(t) == [day |-> t.day, hod |-> t.hod, dateOnly |-> t.dateOnly, safe |-> TRUE]

\* CSV_FILE.with_name(CSV_FILE.stem + CSV_FILE.suffix + f".{last_time}")
BackupName(s) == Sanitize(s[Len(s)].time)

\* shutil.copy(CSV_FILE, backup_path)
BackupCopy_Empty(s) == <<>>

BackupCopy(s) == s

WithBackup(bs, s) ==
    {b \in bs : b[1] # BackupName(s)} \cup {<<BackupName(s), BackupCopy(s)>>}

\* The files a round can find: none, or a table of one row written by an
\* earlier round, its time in either of the forms to_csv gives it.
RoundTables == {<<>>} \cup {<<[sym |-> 1, time |-> t, val |-> Sentinel]>> : t \in TimeTexts}

RoundIdle ==
    /\ attempt = 0
    /\ stale = 0
    /\ bk = "none"
    /\ backups = {}
    /\ headerLines = 0
    /\ startTable = <<>>
    /\ startExists = FALSE
    /\ roundTable = <<>>

\* __main__, line 421: main is called for the first time.
RoundInit ==
    /\ mImpl \in MainImpls
    /\ mMode \in Modes
    /\ table \in RoundTables
    /\ tableExists = (table # <<>>)
    /\ headerLines = (IF table # <<>> THEN 1 ELSE 0)
    /\ now \in {h \in Hours : \A i \in 1..Len(table) : HourOf(table[i].time) <= h}
    /\ tiePolicy = "stable"
    /\ lastOf = [k \in Keys |-> NoVal]
    /\ normalized = TRUE
    /\ passes = 0
    /\ before = <<>>
    /\ overwrote = FALSE
    /\ oBatch = <<>>
    /\ oPerm = <<>>
    /\ oOther = <<>>
    /\ oDone = {}
    /\ attempt = 1
    /\ stale = 0
    /\ bk = "none"
    /\ backups = {}
    /\ startTable = table
    /\ startExists = tableExists
    /\ roundTable = table
    /\ mPc = "backup"
    /\ pairs = <<>>
    /\ pairsOk = TRUE
    /\ wPc = <<>>
    /\ wDriver = <<>>
    /\ wVal = <<>>
    /\ wRec = <<>>
    /\ wRes = <<>>
    /\ doneOrder = <<>>
    /\ dfs = <<>>

\* main, line 371, and backup_csv: copy the file under the name of its
\* last row's time; without a file fetch_cmc_turnover.py returns None,
\* while main.py (lines 173-178) calls read_csv all the same, which raises
\* FileNotFoundError out of main.
BackupCsv ==
    /\ mPc = "backup"
    /\ startTable' = table
    /\ startExists' = tableExists
    /\ IF tableExists
         THEN /\ backups' = WithBackup(backups, table)
              /\ bk' = "copied"
              /\ mPc' = "fetch"
         ELSE /\ backups' = backups
              /\ bk' = IF mImpl = "main" THEN "raised" ELSE "noop"
              /\ mPc' = IF mImpl = "main" THEN "failed" ELSE "fetch"
    /\ UNCHANGED <<attempt, stale, headerLines, roundTable>>
    /\ UNCHANGED <<mMode, mImpl, pairs, pairsOk, wPc, wDriver, wVal, wRec, doneOrder, dfs, wRes>>
    /\ UNCHANGED storeVars

\* main, lines 378-390: get_cmc_market_pairs returns the list, or None;
\* dfs = [] and no worker has been called.
FetchPairs(ok, ps) ==
    /\ mPc = "fetch"
    /\ pairsOk' = ok
    /\ pairs' = ps
    /\ mPc' = "fanout"
    /\ wPc' = [i \in 1..Len(ps) |-> "pending"]
    /\ wDriver' = [i \in 1..Len(ps) |-> "unset"]
    /\ wVal' = [i \in 1..Len(ps) |-> NoVal]
    /\ wRec' = [i \in 1..Len(ps) |-> <<>>]
    /\ wRes' = [i \in 1..Len(ps) |-> NoRes]
    /\ doneOrder' = <<>>
    /\ dfs' = <<>>
    /\ UNCHANGED <<mMode, mImpl>>
    /\ UNCHANGED roundVars
    /\ UNCHANGED storeVars

\* main, lines 406-410 are reached with the batch collected.
MayAppend_AlsoFailed == mPc \in {"store", "failed"}

MayAppend == mPc = "store"

\* main, lines 406-410: to_csv writes the file with a header when there
\* is none, and appends without a header otherwise.
AppendCsv ==
    /\ MayAppend
    /\ mPc' = "appended"
    /\ table' = AppendBatch(table, dfs)
    /\ tableExists' = TRUE
    /\ headerLines' = IF tableExists THEN headerLines ELSE 1
    /\ normalized' = FALSE
    /\ UNCHANGED <<tiePolicy, now, lastOf, passes, before, overwrote, oBatch, oPerm, oOther, oDone>>
    /\ UNCHANGED <<mMode, mImpl, pairs, pairsOk, wPc, wDriver, wVal, wRec, doneOrder, dfs, wRes>>
    /\ UNCHANGED <<attempt, stale, bk, backups, startTable, startExists, roundTable>>

\* main, line 413: format_csv rewrites the file, header included.
FormatStep ==
    /\ mPc = "appended"
    /\ mPc' = "done"
    /\ before' = table
    /\ table' = FormatCsv(table)
    /\ headerLines' = 1
    /\ normalized' = TRUE
    /\ UNCHANGED <<tableExists, tiePolicy, now, lastOf, passes, overwrote, oBatch, oPerm, oOther, oDone>>
    /\ UNCHANGED <<mMode, mImpl, pairs, pairsOk, wPc, wDriver, wVal, wRec, doneOrder, dfs, wRes>>
    /\ UNCHANGED <<attempt, stale, bk, backups, startTable, startExists, roundTable>>

\* __main__, line 421: main raised and retry_wrapper, after its sleep,
\* calls it again.  The pool's threads that were inside save_for_one when
\* the exception reached main are not stopped by it.
TopRetry ==
    /\ mPc = "failed"
    /\ attempt < Attempts(mImpl)
    /\ attempt' = attempt + 1
    /\ stale' = stale + Cardinality({i \in Idx : Active(i)})
    /\ bk' = "none"
    /\ mPc' = "backup"
    /\ pairs' = <<>>
    /\ pairsOk' = TRUE
    /\ wPc' = <<>>
    /\ wDriver' = <<>>
    /\ wVal' = <<>>
    /\ wRec' = <<>>
    /\ wRes' = <<>>
    /\ doneOrder' = <<>>
    /\ dfs' = <<>>
    /\ UNCHANGED <<mMode, mImpl, backups, headerLines, startTable, startExists, roundTable>>
    /\ UNCHANGED storeVars

\* __main__, lines 423-428: the last attempt raised; the error is logged,
\* clear_chrom runs and the process ends, its threads with it.
GiveUp ==
    /\ mPc = "failed"
    /\ attempt >= Attempts(mImpl)
    /\ mPc' = "exit"
    /\ stale' = 0
    /\ pairs' = <<>>
    /\ pairsOk' = TRUE
    /\ wPc' = <<>>
    /\ wDriver' = <<>>
    /\ wVal' = <<>>
    /\ wRec' = <<>>
    /\ wRes' = <<>>
    /\ doneOrder' = <<>>
    /\ dfs' = <<>>
    /\ UNCHANGED <<mMode, mImpl, attempt, bk, backups, headerLines, startTable,
                   startExists, roundTable>>
    /\ UNCHANGED storeVars

\* A thread left over from a failed attempt comes to the end of its
\* save_for_one call.
StaleWorkerEnds ==
    /\ stale > 0
    /\ stale' = stale - 1
    /\ UNCHANGED <<attempt, bk, backups, headerLines, startTable, startExists, roundTable>>
    /\ UNCHANGED runVars
    /\ UNCHANGED storeVars

(***************************************************************************)
(* Processes: __main__, check_running, clear_chrom                         *)
(***************************************************************************)
\* The instance that is running and the one that starts meanwhile.
Procs == {"first", "second"}

Platforms == {"Linux", "other"}

\* A process that `ps ax` lists.
Alive(p) == pPc[p] \notin {"off", "ended"}

InRound(p) == pPc[p] \in {"backup", "fanout", "store"}

\* check_running (called by main of fetch_cmc_turnover.py on Linux only,
\* lines 367-368; main.py has no such call): another process whose
\* command line holds the program's name is listed, and exit() is called.
GuardFinds(p) ==
    /\ pImpl = "fetch_cmc_turnover"
    /\ platform = "Linux"
    /\ \E q \in Procs \ {p} : Alive(q)

\* clear_chrom: os.system("pkill -f chrom") on Linux, which signals every
\* process of the machine whose command line holds "chrom".
PkillHits(p, q) == platform = "Linux" /\ pBrowsers[q] > 0

ProcIdle ==
    /\ platform = "Linux"
    /\ pImpl = "fetch_cmc_turnover"
    /\ pPc = [p \in Procs |-> "off"]
    /\ pCalls = [p \in Procs |-> 0]
    /\ pCleanups = [p \in Procs |-> 0]
    /\ pHow = [p \in Procs |-> "none"]
    /\ pBrowsers = [p \in Procs |-> 0]
    /\ pKilledBy = [p \in Procs |-> "none"]
    /\ pDid = [p \in Procs |-> {}]

ProcInit ==
    /\ platform \in Platforms
    /\ pImpl \in MainImpls
    /\ pPc = [p \in Procs |-> "off"]
    /\ pCalls = [p \in Procs |-> 0]
    /\ pCleanups = [p \in Procs |-> 0]
    /\ pHow = [p \in Procs |-> "none"]
    /\ pBrowsers = [p \in Procs |-> 0]
    /\ pKilledBy = [p \in Procs |-> "none"]
    /\ pDid = [p \in Procs |-> {}]

\* The process is started and enters the try block of __main__.
Launch(p) ==
    /\ pPc[p] = "off"
    /\ pPc' = [pPc EXCEPT ![p] = "call"]
    /\ UNCHANGED <<platform, pImpl, pCalls, pCleanups, pHow, pBrowsers, pKilledBy, pDid>>

\* retry_wrapper's loop calls main (main.py: the one call of main()), and
\* main begins with check_running: exit() raises SystemExit, which no
\* `except Exception` clause catches, so it leaves retry_wrapper and the
\* try block.
CallMain(p) ==
    /\ pPc[p] = "call"
    /\ RetryLoopContinues(pCalls[p], Attempts(pImpl))
    /\ pCalls' = [pCalls EXCEPT ![p] = @ + 1]
    /\ IF GuardFinds(p)
         THEN /\ pPc' = [pPc EXCEPT ![p] = "finally"]
              /\ pHow' = [pHow EXCEPT ![p] = "guard"]
         ELSE /\ pPc' = [pPc EXCEPT ![p] = "backup"]
              /\ pHow' = pHow
    /\ UNCHANGED <<platform, pImpl, pCleanups, pBrowsers, pKilledBy, pDid>>

\* retry_wrapper's for-else with if_exit=True raises, and `except
\* Exception` of __main__ logs it (main.py: the exception of main()
\* itself arrives there).
TopExhausted(p) ==
    /\ pPc[p] = "call"
    /\ ~RetryLoopContinues(pCalls[p], Attempts(pImpl))
    /\ pPc' = [pPc EXCEPT ![p] = "finally"]
    /\ pHow' = [pHow EXCEPT ![p] = "exhausted"]
    /\ UNCHANGED <<platform, pImpl, pCalls, pCleanups, pBrowsers, pKilledBy, pDid>>

\* main, line 371: backup_csv.
ProcBackup(p) ==
    /\ pPc[p] = "backup"
    /\ pPc' = [pPc EXCEPT ![p] = "fanout"]
    /\ pDid' = [pDid EXCEPT ![p] = @ \cup {"backup"}]
    /\ UNCHANGED <<platform, pImpl, pCalls, pCleanups, pHow, pBrowsers, pKilledBy>>

\* save_for_one, line 298: a worker of the attempt starts its browser.
ProcStartBrowser(p) ==
    /\ pPc[p] = "fanout"
    /\ pBrowsers[p] < Threads
    /\ pBrowsers' = [pBrowsers EXCEPT ![p] = @ + 1]
    /\ pDid' = [pDid EXCEPT ![p] = @ \cup {"worker"}]
    /\ UNCHANGED <<platform, pImpl, pPc, pCalls, pCleanups, pHow, pKilledBy>>

\* save_for_one, line 305: driver.quit().
ProcQuitBrowser(p) ==
    /\ pPc[p] = "fanout"
    /\ pBrowsers[p] > 0
    /\ pBrowsers' = [pBrowsers EXCEPT ![p] = @ - 1]
    /\ UNCHANGED <<platform, pImpl, pPc, pCalls, pCleanups, pHow, pKilledBy, pDid>>

\* main, line 403: every worker has returned.
ProcCollected(p) ==
    /\ pPc[p] = "fanout"
    /\ pBrowsers[p] = 0
    /\ pPc' = [pPc EXCEPT ![p] = "store"]
    /\ UNCHANGED <<platform, pImpl, pCalls, pCleanups, pHow, pBrowsers, pKilledBy, pDid>>

\* main, lines 406-414: append, format_csv, return.
ProcWriteTable(p) ==
    /\ pPc[p] = "store"
    /\ pPc' = [pPc EXCEPT ![p] = "finally"]
    /\ pHow' = [pHow EXCEPT ![p] = "returned"]
    /\ pDid' = [pDid EXCEPT ![p] = @ \cup {"write"}]
    /\ UNCHANGED <<platform, pImpl, pCalls, pCleanups, pBrowsers, pKilledBy>>

\* main raises an Exception; retry_wrapper catches it, sleeps and goes
\* round its loop.  The count of browsers starts again with the next
\* attempt.
ProcMainFails(p) ==
    /\ InRound(p)
    /\ pPc' = [pPc EXCEPT ![p] = "call"]
    /\ pBrowsers' = [pBrowsers EXCEPT ![p] = 0]
    /\ UNCHANGED <<platform, pImpl, pCalls, pCleanups, pHow, pKilledBy, pDid>>

\* An exception that is no Exception (KeyboardInterrupt) leaves
\* retry_wrapper and the try block.
ProcInterrupted(p) ==
    /\ InRound(p)
    /\ pPc' = [pPc EXCEPT ![p] = "finally"]
    /\ pHow' = [pHow EXCEPT ![p] = "interrupt"]
    /\ UNCHANGED <<platform, pImpl, pCalls, pCleanups, pBrowsers, pKilledBy, pDid>>

\* __main__, lines 426-428: finally: clear_chrom().
CleanupCalls_Twice(n) == n + 2

CleanupCalls(n) == n + 1

ProcCleanup(p) ==
    /\ pPc[p] = "finally"
    /\ pPc' = [pPc EXCEPT ![p] = "ended"]
    /\ pCleanups' = [pCleanups EXCEPT ![p] = CleanupCalls(@)]
    /\ pKilledBy' = [q \in Procs |->
                       IF q # p /\ PkillHits(p, q) THEN pHow[p] ELSE pKilledBy[q]]
    /\ pBrowsers' = [q \in Procs |-> IF PkillHits(p, q) THEN 0 ELSE pBrowsers[q]]
    /\ UNCHANGED <<platform, pImpl, pCalls, pHow, pDid>>

(***************************************************************************)
(* Specifications and claims: retry_wrapper                                *)
(***************************************************************************)
RetryNext ==
    /\ \/ \E o \in FuncOutcomes : RetryAttempt(o)
       \/ RetryExhausted
    /\ UNCHANGED <<extractVars, storeVars, runVars, roundVars, procVars>>

InitRetry == RetryInit /\ ExtractIdle /\ StoreIdle /\ RunIdle /\ RoundIdle /\ ProcIdle

SpecRetry == InitRetry /\ [][RetryNext]_vars

AllFailed(h) == \A i \in 1..Len(h) : h[i].kind # "ok"

\* C1: a success on attempt k <= retry_times is returned after exactly k
\* invocations and exactly k-1 sleeps, whatever the kinds of the k-1
\* failures, and the value returned is func's.
C1_SuccessAfterKMinus1Delays ==
    rPc = "returned" =>
        /\ rCalls = Len(rHist)
        /\ rCalls <= rTimes
        /\ AllFailed(SubSeq(rHist, 1, rCalls - 1))
        /\ rHist[rCalls].kind = "ok"
        /\ rResult = rHist[rCalls].value
        /\ rSleeps = rCalls - 1

\* C2: func is never invoked more than retry_times times; the wrapper
\* raises only with if_exit set and hands back None only with if_exit
\* clear, in both cases after exactly retry_times failed invocations.
C2_Exhaustion ==
    /\ rCalls <= rTimes
    /\ rCalls = Len(rHist)
    /\ rPc = "raised" => rIfExit /\ rCalls = rTimes /\ AllFailed(rHist)
    /\ rPc = "none" =>
           ~rIfExit /\ rCalls = rTimes /\ AllFailed(rHist) /\ rResult = NoResult
    /\ (rPc = "loop" /\ rCalls = rTimes) => AllFailed(rHist)

C2_Witness ==
    /\ rPc \in {"raised", "none"}
    /\ rTimes = MaxRetryTimes
    /\ rCalls = rTimes
    /\ AllFailed(rHist)

(***************************************************************************)
(* Specification of the extraction of one metric from one page             *)
(***************************************************************************)
ExtractNext ==
    /\ \/ XpathStep
       \/ XpathExhausted
       \/ SelectorStep
       \/ SelectorsExhausted
       \/ ElemStep
       \/ ElemsExhausted
    /\ UNCHANGED <<retryVars, storeVars, runVars, roundVars, procVars>>

InitExtract == ExtractInit /\ RetryIdle /\ StoreIdle /\ RunIdle /\ RoundIdle /\ ProcIdle

SpecExtract == InitExtract /\ [][ExtractNext]_vars

\* The locators of the list that resolve and parse, by the extractor's own
\* parsing rule: an xpath whose element's text float() accepts, a selector
\* one of whose elements is accepted.
ElemAccepted(e) == e.k = "text" /\ ElemVerdict(e.t) = "accept"

LocatorWins(i) ==
    LET o == xPage[i] IN
    IF xImpl \in XpathImpls
      THEN o.k = "text" /\ XpathParses(xMetric, o.t)
      ELSE o.k = "elems" /\ \E j \in 1..Len(o.es) : ElemAccepted(o.es[j])

LocatorValue(i) ==
    LET o == xPage[i] IN
    IF xImpl \in XpathImpls
      THEN Num(XpathValue(xMetric, o.t))
      ELSE LET j == CHOOSE j \in 1..Len(o.es) :
                      /\ ElemAccepted(o.es[j])
                      /\ \A h \in 1..(j - 1) : ~ElemAccepted(o.es[h])
           IN  Num(ElemValue(o.es[j].t))

Winners == {i \in 1..Len(xPage) : LocatorWins(i)}

FirstWinner == CHOOSE i \in Winners : \A j \in Winners : i <= j

\* C5: the turnover rate an extraction ends with is the sentinel -1.0 or a
\* number in [0, 1], whatever texts the page holds.
C5_TurnoverInUnitInterval ==
    (xPc = "done" /\ xMetric = "tor") =>
        /\ xVal.isNum
        /\ xVal.v = Sentinel \/ (0 <= xVal.v /\ xVal.v <= Unit)

\* C6: an accepted turnover text "v%" gives v/100; an accepted bare text
\* has 0 < v < 1 and gives v; so a bare text outside (0,1) is never the
\* accepted one.
C6_TurnoverValueRules ==
    (xPc = "done" /\ xMetric = "tor" /\ xWinner # NoText) =>
        IF xWinner.pct
          THEN xVal = Num(Div100(xWinner.num))
          ELSE /\ 0 < xWinner.num /\ xWinner.num < Unit
               /\ xVal = Num(xWinner.num)

\* C7: the extraction ends (it does not raise) with the value of the first
\* locator in list order that resolves and parses, or the sentinel when
\* there is none; no locator is evaluated twice and none after the winner.
C7_FirstParsingLocatorWins ==
    xImpl \in {"cap_vol_tor", "turnover_rate"} =>
        /\ xPc # "raised"
        /\ \A i \in 1..Len(xPage) : xEvals[i] <= 1
        /\ xPc = "done" =>
             IF Winners = {}
               THEN xVal = Num(Sentinel)
               ELSE /\ xVal = LocatorValue(FirstWinner)
                    /\ \A i \in 1..Len(xPage) : i > FirstWinner => xEvals[i] = 0

\* The same statement for the xpath lists of get_cmc_cap_vol_tor alone.
XpathCascadeFirstWins ==
    xImpl \in XpathImpls =>
        /\ \A i \in 1..Len(xPage) : xEvals[i] <= 1
        /\ xPc = "done" =>
             IF Winners = {}
               THEN xVal = Num(Sentinel)
               ELSE /\ xVal = LocatorValue(FirstWinner)
                    /\ \A i \in 1..Len(xPage) : i > FirstWinner => xEvals[i] = 0

\* C15: a metric whose locators are all used up without an accepted text
\* ends as the float -1.0, and the extractor raises nothing.
C15_ExhaustedGivesSentinel ==
    /\ xPc # "raised"
    /\ (xPc = "done" /\ xWinner = NoText) => xVal = Num(Sentinel)

(***************************************************************************)
(* Specifications and claims: rounds on the table file                     *)
(***************************************************************************)
StoreNext ==
    /\ \/ \E batch \in Batches(RunHours(now)) : StoreRound(batch)
       \/ \E batch \in Batches(RunHours(now)) : StoreRoundFormatFails(batch)
       \/ Tick
    /\ UNCHANGED <<retryVars, extractVars, runVars, roundVars, procVars>>

InitStore == StoreInit /\ RetryIdle /\ ExtractIdle /\ RunIdle /\ RoundIdle /\ ProcIdle

SpecStore == InitStore /\ [][StoreNext]_vars

RowsOf(s, k) == {i \in 1..Len(s) : s[i].sym = k[1] /\ HourOf(s[i].time) = k[2]}

TableKeys(s) == {<<s[i].sym, HourOf(s[i].time)>> : i \in 1..Len(s)}

\* C3: after a round that normalised, every (symbol, hour) ever appended
\* has exactly one row, carrying the values appended last for it.
C3_OneRowPerKeyLatestWins ==
    normalized =>
        \A k \in Keys :
            IF lastOf[k] = NoVal
              THEN RowsOf(table, k) = {}
              ELSE /\ Cardinality(RowsOf(table, k)) = 1
                   /\ \A i \in RowsOf(table, k) : table[i].val = lastOf[k]

\* The same statement for the text keys the file holds: no two rows of a
\* normalised table share (symbol, candle_begin_time text).
NormalizedHasUniqueTextKeys ==
    normalized =>
        \A i, j \in 1..Len(table) : SameKey(table[i], table[j]) => i = j

\* C10: no step of a round removes a (symbol, hour) from the table.
C10_HistoryNeverShrinks ==
    [][TableKeys(table) \subseteq TableKeys(table')]_vars

C10_Witness ==
    /\ normalized
    /\ overwrote
    /\ Cardinality(TableKeys(table)) >= 2
    /\ now = MaxHour

(***************************************************************************)
(* Specifications and claims: format_csv on any table                      *)
(***************************************************************************)
FormatInit ==
    /\ table \in SeqsUpTo(Rows, MaxRows)
    /\ tableExists = TRUE
    /\ tiePolicy \in TiePolicies
    /\ now = StartHour
    /\ lastOf = [k \in Keys |-> NoVal]
    /\ normalized = FALSE
    /\ passes = 0
    /\ before = table
    /\ overwrote = FALSE
    /\ oBatch = <<>>
    /\ oPerm = <<>>
    /\ oOther = <<>>
    /\ oDone = {}

\* One call of format_csv on the file.
FormatPass ==
    /\ passes < MaxPasses
    /\ before' = table
    /\ table' = FormatCsv(table)
    /\ overwrote' = (overwrote \/ Len(table') < Len(table))
    /\ passes' = passes + 1
    /\ normalized' = TRUE
    /\ UNCHANGED <<tableExists, tiePolicy, now, lastOf, oBatch, oPerm, oOther, oDone>>

FormatNext == FormatPass /\ UNCHANGED <<retryVars, extractVars, runVars, roundVars, procVars>>

InitFormat == FormatInit /\ RetryIdle /\ ExtractIdle /\ RunIdle /\ RoundIdle /\ ProcIdle

SpecFormat == InitFormat /\ [][FormatNext]_vars

\* C4: a second format_csv call in a row leaves the row sequence as the
\* first call left it.
C4_FormatIdempotent ==
    passes >= 2 => table = before

\* Two calls were made on a table that held a duplicate key, and the
\* result holds two rows of one candle_begin_time, which the build's
\* quicksort does not keep in input order.
C4_Witness ==
    /\ passes = 2
    /\ overwrote
    /\ tiePolicy = "reversed"
    /\ \E i, j \in 1..Len(table) : i < j /\ table[i].time = table[j].time

HourAscending(s) ==
    \A i, j \in 1..Len(s) : i < j => HourOf(s[i].time) <= HourOf(s[j].time)

\* C12: after a format_csv pass the rows of the table are in ascending
\* order of the hour their candle_begin_time denotes, whatever rows the
\* file held before the pass.
C12_SortedByHourAfterPass ==
    passes >= 1 => HourAscending(table)

\* A pass was made on a file whose rows were out of hour order, and the
\* result holds an earlier hour, a midnight written as a date alone and
\* the same midnight written in full.
C12_Witness ==
    /\ passes = 1
    /\ ~HourAscending(before)
    /\ \E i, j, k \in 1..Len(table) :
          /\ HourOf(table[i].time) < HourOf(table[j].time)
          /\ table[j].time.dateOnly
          /\ ~table[k].time.dateOnly
          /\ HourOf(table[k].time) = HourOf(table[j].time)

(***************************************************************************)
(* Specifications and claims: one batch stored in two orders               *)
(***************************************************************************)
Perms(s) ==
    {[i \in 1..Len(s) |-> s[f[i]]] :
        f \in {g \in [1..Len(s) -> 1..Len(s)] :
                 \A a, b \in 1..Len(s) : g[a] = g[b] => a = b}}

OrderInit ==
    /\ table \in SeqsUpTo(Rows, MaxPrior)
    /\ tableExists = (table # <<>>)
    /\ tiePolicy \in TiePolicies
    /\ now = StartHour
    /\ lastOf = [k \in Keys |-> NoVal]
    /\ normalized = FALSE
    /\ passes = 0
    /\ before = <<>>
    /\ overwrote = FALSE
    /\ oBatch \in Batches(Hours)
    /\ oPerm \in Perms(oBatch)
    /\ oOther = table
    /\ oDone = {}

\* main's store step on the batch in submission order (sequential mode).
StoreSubmissionOrder ==
    /\ "seq" \notin oDone
    /\ table' = StoreResult(table, oBatch)
    /\ tableExists' = TRUE
    /\ oDone' = oDone \cup {"seq"}
    /\ UNCHANGED <<tiePolicy, now, lastOf, normalized, passes, before,
                   overwrote, oBatch, oPerm, oOther>>

\* main's store step, from the same file, on the batch in delivered order.
StoreDeliveredOrder ==
    /\ "perm" \notin oDone
    /\ oOther' = StoreResult(oOther, oPerm)
    /\ oDone' = oDone \cup {"perm"}
    /\ UNCHANGED <<table, tableExists, tiePolicy, now, lastOf, normalized,
                   passes, before, overwrote, oBatch, oPerm>>

OrderNext ==
    /\ \/ StoreSubmissionOrder
       \/ StoreDeliveredOrder
    /\ UNCHANGED <<retryVars, extractVars, runVars, roundVars, procVars>>

InitOrder == OrderInit /\ RetryIdle /\ ExtractIdle /\ RunIdle /\ RoundIdle /\ ProcIdle

SpecOrder == InitOrder /\ [][OrderNext]_vars

DistinctBatchKeys(b) ==
    \A i, j \in 1..Len(b) :
        (b[i].sym = b[j].sym /\ b[i].hour = b[j].hour) => i = j

\* C9 as stated: whatever the batch, both orders end in the same table.
C9_AnyBatchOrderIndependent ==
    oDone = {"seq", "perm"} => table = oOther

\* C9 as amended: both orders end in the same table when no two records
\* of the batch share (symbol, hour_bucket).
C9_DistinctKeysOrderIndependent ==
    (oDone = {"seq", "perm"} /\ DistinctBatchKeys(oBatch)) => table = oOther

C9_Witness ==
    /\ oDone = {"seq", "perm"}
    /\ DistinctBatchKeys(oBatch)
    /\ oPerm # oBatch
    /\ tiePolicy = "reversed"
    /\ \E i \in 1..Len(table) : \E j \in 1..Len(oBatch) :
           table[i].sym = oBatch[j].sym /\ HourOf(table[i].time) = oBatch[j].hour
    /\ Len(table) > Len(oBatch)

(***************************************************************************)
(* Specifications and claims: one run attempt                              *)
(***************************************************************************)
RunNext ==
    \/ /\ \/ \E i \in Idx : WorkerStart(i, JitterBase(mImpl, mMode))
          \/ \E i \in Idx : \E d \in {"driver", "None"} : WorkerCreateDriver(i, d)
          \/ \E i \in Idx : \E v \in Vals : WorkerExtract(i, v)
          \/ \E i \in Idx : WorkerRaises(i)
          \/ \E i \in Idx : WorkerTeardownRaises(i)
          \/ \E i \in Idx : WorkerReturn(i)
          \/ Collect
          \/ NoPairList
       /\ UNCHANGED <<retryVars, extractVars, storeVars, roundVars, procVars>>
    \/ Tick /\ UNCHANGED <<retryVars, extractVars, runVars, roundVars, procVars>>

InitRun == RunInit /\ RetryIdle /\ ExtractIdle /\ StoreIdle /\ RoundIdle /\ ProcIdle

SpecRun == InitRun /\ [][RunNext]_vars

\* C8: when the attempt reaches the store step, dfs holds one record per
\* submitted pair, the i-th for the i-th pair; every worker returned once
\* and none raised; the record of a pair whose extraction found nothing
\* carries the sentinel.
C8_OneRecordPerPair ==
    mPc = "store" =>
        /\ Len(dfs) = Len(pairs)
        /\ \A i \in Idx :
              /\ wPc[i] = "returned"
              /\ Len(wRec[i]) = 1
              /\ dfs[i] = wRec[i][1]
              /\ dfs[i].sym = pairs[i]
              /\ dfs[i].val = wVal[i]
              /\ dfs[i].val \in Vals
        /\ Len(doneOrder) = Len(pairs)
        /\ \A i \in Idx : \E p \in 1..Len(doneOrder) : doneOrder[p] = i

\* A parallel attempt whose workers returned out of submission order, one
\* of them with nothing extracted.
C8_Witness ==
    /\ mPc = "store"
    /\ mMode = "parallel"
    /\ Len(pairs) = MaxPairs
    /\ \E p \in 1..(Len(doneOrder) - 1) : doneOrder[p] > doneOrder[p + 1]
    /\ \E i \in Idx : dfs[i].val = Sentinel
    /\ \E i \in Idx : dfs[i].val # Sentinel

(***************************************************************************)
(* Specifications and claims: one round                                    *)
(***************************************************************************)
RoundNext ==
    \/ /\ \/ \E i \in Idx : \E ms \in Jitters(mImpl, mMode) : WorkerStart(i, ms)
          \/ \E i \in Idx : \E d \in {"driver", "None"} : WorkerCreateDriver(i, d)
          \/ \E i \in Idx : WorkerCreateRaises(i)
          \/ \E i \in Idx : \E v \in Vals : WorkerExtract(i, v)
          \/ \E i \in Idx : WorkerExtractRaises(i)
          \/ \E i \in Idx : WorkerRaises(i)
          \/ \E i \in Idx : WorkerTeardownRaises(i)
          \/ \E i \in Idx : WorkerReturn(i)
          \/ Collect
          \/ NoPairList
       /\ UNCHANGED <<retryVars, extractVars, storeVars, roundVars, procVars>>
    \/ /\ \/ BackupCsv
          \/ \E ps \in PairLists : FetchPairs(TRUE, ps)
          \/ FetchPairs(FALSE, <<>>)
          \/ AppendCsv
          \/ FormatStep
          \/ TopRetry
          \/ GiveUp
          \/ StaleWorkerEnds
       /\ UNCHANGED <<retryVars, extractVars, procVars>>

InitRound == RoundInit /\ RetryIdle /\ ExtractIdle /\ ProcIdle

SpecRound == InitRound /\ [][RoundNext]_vars

\* C13: a worker that has finished, by returning or by raising, has its
\* browser shut down and its temporary directory removed.
C13_TeardownOnEveryExit ==
    \A i \in Idx :
        Finished(i) => wRes[i].ctx # "open" /\ wRes[i].temp # "exists"

\* C16: a worker raises only when the creation of its browser used up its
\* three attempts.
C16_OnlyContextCreationPropagates ==
    \A i \in Idx : wPc[i] = "raised" => wDriver[i] = "None"

\* The file a worker's driver process runs: its own copy (one per mkdtemp
\* directory, which is unique to the call), or the installed one.
ExeFile(i) == IF wRes[i].exe = "copy" THEN <<"copy", i>> ELSE <<wRes[i].exe>>

\* C17: two workers that are active at the same time do not run the same
\* driver executable file.
C17_WorkerIsolation ==
    \A i, j \in Idx :
        (/\ i # j
         /\ Active(i) /\ wRes[i].exe # "none"
         /\ Active(j) /\ wRes[j].exe # "none") => ExeFile(i) # ExeFile(j)

\* C20: sequential mode has at most one active worker and sleeps 0 ms;
\* parallel mode has at most Threads active workers, each sleeping between
\* JitterMs and 2 * JitterMs.
C20_BoundedConcurrency ==
    LET active   == {i \in Idx : Active(i)}
        sleeping == {i \in Idx : wPc[i] = "started"}
    IN  IF mMode = "sequential"
          THEN /\ Cardinality(active) <= 1
               /\ \A i \in sleeping : wRes[i].sleep = 0
          ELSE /\ Cardinality(active) <= Threads
               /\ \A i \in sleeping :
                     JitterMs <= wRes[i].sleep /\ wRes[i].sleep <= 2 * JitterMs

\* C11: without a table file the backup step copies nothing and raises
\* nothing, and the append then creates the file with its header; with a
\* file, the step leaves a copy of it under the name made of its last
\* row's time.
C11_BackupStep ==
    /\ bk # "none" =>
          IF startExists
            THEN /\ bk = "copied"
                 /\ <<BackupName(startTable), startTable>> \in backups
            ELSE /\ bk = "noop"
                 /\ backups = {}
    /\ mPc \in {"appended", "done"} => tableExists /\ headerLines = 1

\* C14: an attempt that failed has left the file as it found it, and a
\* round that gave up has left it as the round found it.
C14_FailedAttemptAppendsNothing ==
    /\ mPc = "failed" => table = startTable /\ tableExists = startExists
    /\ mPc = "exit" => table = roundTable /\ tableExists = (roundTable # <<>>)

\* The second attempt on an existing file failed when one of its workers
\* raised after another had returned its record.
C14_Witness ==
    /\ mPc = "failed"
    /\ attempt = TopRetryTimes
    /\ startExists
    /\ \E i, j \in Idx : wPc[i] = "returned" /\ wPc[j] = "raised"

TableWritten == table' # table \/ tableExists' # tableExists

WorkerStarts ==
    \E i \in Idx : i \in DOMAIN wPc' /\ wPc[i] = "pending" /\ wPc'[i] = "started"

\* The parts of C18 that concern the attempt's own workers: a worker
\* starts only after the backup step, the file is written only when every
\* worker of the attempt has returned, and the write that follows the
\* append is the normalisation.
OrderWithinAttempt ==
    /\ WorkerStarts => bk \in {"noop", "copied"}
    /\ TableWritten =>
          /\ bk \in {"noop", "copied"}
          /\ \A i \in Idx : wPc[i] = "returned"
          /\ mPc \in {"store", "appended"}
          /\ mPc' = (IF mPc = "store" THEN "appended" ELSE "done")

\* C18 as stated: the above, and no worker at all is active while the
\* file is written.
C18_NoWorkerActiveDuringWrite ==
    [][OrderWithinAttempt /\ (TableWritten => stale = 0)]_vars

\* C18, for the workers of the attempt that writes.
C18_OrderWithinAttempt ==
    [][OrderWithinAttempt]_vars

\* The second attempt of a parallel round has appended and normalised
\* while a thread of the first attempt was still running.
C18_Witness ==
    /\ mPc = "done"
    /\ mMode = "parallel"
    /\ attempt = TopRetryTimes
    /\ stale > 0
    /\ bk = "copied"
    /\ Len(pairs) >= 2
    /\ table # startTable

\* C19: from the moment an attempt on an existing file can write it, a
\* backup file named after the last row's time of the file as the attempt
\* found it holds exactly the rows the attempt found.
C19_BackupHoldsStartOfAttempt ==
    (mPc \in {"store", "appended", "done"} /\ startExists) =>
        <<BackupName(startTable), startTable>> \in backups

\* A second attempt has rewritten a file whose last row is a midnight
\* written as a date alone.
C19_Witness ==
    /\ mPc = "done"
    /\ attempt = TopRetryTimes
    /\ startExists
    /\ startTable[Len(startTable)].time.dateOnly
    /\ table # startTable

(***************************************************************************)
(* Specifications and claims: processes                                    *)
(***************************************************************************)
ProcNext ==
    /\ \E p \in Procs :
          \/ Launch(p)
          \/ CallMain(p)
          \/ TopExhausted(p)
          \/ ProcBackup(p)
          \/ ProcStartBrowser(p)
          \/ ProcQuitBrowser(p)
          \/ ProcCollected(p)
          \/ ProcWriteTable(p)
          \/ ProcMainFails(p)
          \/ ProcInterrupted(p)
          \/ ProcCleanup(p)
    /\ UNCHANGED <<retryVars, extractVars, storeVars, runVars, roundVars>>

InitProc == ProcInit /\ RetryIdle /\ ExtractIdle /\ StoreIdle /\ RunIdle /\ RoundIdle

SpecProc == InitProc /\ [][ProcNext]_vars

\* C21: a process calls main at most TopRetryTimes times; clear_chrom is
\* not called before the try block has ended, and a process that has ended
\* has called it exactly once; a process whose attempts all failed made as
\* many calls as its policy allows and no more.
C21_TopLevelRun ==
    \A p \in Procs :
        /\ pCalls[p] <= TopRetryTimes
        /\ pPc[p] # "ended" => pCleanups[p] = 0
        /\ pPc[p] = "ended" => pCleanups[p] = 1 /\ pHow[p] # "none"
        /\ pHow[p] = "exhausted" =>
              pCalls[p] = (IF pImpl = "main" THEN 1 ELSE TopRetryTimes)

\* One process has ended after both of its attempts failed, another after
\* its round was written.
C21_Witness ==
    /\ pImpl = "fetch_cmc_turnover"
    /\ \E p, q \in Procs :
          /\ pPc[p] = "ended" /\ pHow[p] = "exhausted"
          /\ pCalls[p] = TopRetryTimes /\ pCleanups[p] = 1
          /\ pPc[q] = "ended" /\ pHow[q] = "returned" /\ pCleanups[q] = 1

\* C22: in fetch_cmc_turnover.py no two processes are inside a round at a
\* time; a process that its first check_running turned away has made no
\* backup, started no worker and written nothing, and is not called
\* again; and no process that check_running turned away has ended a
\* browser of another process.
C22_GuardWithoutInterference ==
    pImpl = "fetch_cmc_turnover" =>
        /\ \A p, q \in Procs : InRound(p) /\ InRound(q) => p = q
        /\ \A p \in Procs :
              pHow[p] = "guard" =>
                 /\ pPc[p] \in {"finally", "ended"}
                 /\ pCalls[p] = 1 => pDid[p] = {}
        /\ \A q \in Procs : pKilledBy[q] # "guard"

=============================================================================
